---------------------------- MODULE Spec2Model ----------------------------
(* A model of the printer control core of wasp, src/src/printer.rs:       *)
(* the Printer struct (serial line buffer, the two G-code ring buffers)   *)
(* and its per-tick driver Printer::update -> Printer::recive_serial.     *)
(*                                                                        *)
(* Bytes, cursors and lengths are the integers the code holds.  u8        *)
(* arithmetic is modelled with its width: an increment of 255 either      *)
(* panics (overflow checks on) or wraps to 0 (overflow checks off), and   *)
(* a u8 literal keeps its low 8 bits.                                     *)
(* A panic stops the program: no further tick runs.                       *)
EXTENDS Integers, Sequences, FiniteSets

(* ------------------------------------------------------------------ *)
(* Program constants                                                    *)
(* ------------------------------------------------------------------ *)

\* static LINE_ENDING: u8 = '\n' as u8;
LINE_ENDING == 10

\* gcode_buffer: [Option<Line>; 32]  (and immediate_gcode_buffer)
BufferSize == 32

\* serial_buffer: [u8; 256]
SerialBufferSize == 256

\* serial_bytes, gcode_buffer_head, ... are u8: values 0..255
U8Modulus == 256

\* the literal of the guard `self.serial_bytes < 256`, as written
SerialGuardLiteral == 256

\* The guard with its right operand in a type wide enough for the
\* literal (`(self.serial_bytes as usize) < 256`).
SerialGuardWide == SerialGuardLiteral

\* The right operand of the guard as the program has it.  The operand
\* takes the type of serial_bytes, u8, which has no value 256: a build
\* that accepts the out-of-range literal keeps its low 8 bits, 0 (a
\* build that rejects it produces no program).
SerialGuard == SerialGuardLiteral % U8Modulus

(* ------------------------------------------------------------------ *)
(* Bounds of the model                                                  *)
(* ------------------------------------------------------------------ *)

\* Spec: the number of bytes the transport delivers
MaxBytes == 5

\* SpecLong: the longest run of one repeated byte the transport delivers
\* first, and the number of freely chosen bytes that follow it
MaxRun == 257
MaxPost == 5

\* SpecLive: the number of bytes the transport delivers
MaxLive == 4

(* ------------------------------------------------------------------ *)
(* Bytes and commands                                                   *)
(* ------------------------------------------------------------------ *)

\* The bytes of the wire the model distinguishes.  Each ASCII letter
\* stands for one complete command word of the G-code dialect.
NUL == 0
ByteG == 71
ByteT == 84
ByteF == 70
ByteE == 69
ByteQ == 81
ByteX == 88
ByteCont == 128
ByteLead == 195

Bytes == {LINE_ENDING, ByteG, ByteT, ByteF, ByteE, ByteQ, ByteX, ByteCont, ByteLead}

\* SpecLong: the byte of the leading run, and the bytes that may follow it
RunByte == ByteG
PostBytes == {LINE_ENDING, ByteE, ByteCont}

\* SpecLive: the bytes the transport delivers
LiveBytes == {LINE_ENDING, ByteG, ByteE, ByteX}

None == "None"
Commands == {"Move", "SetTemperature", "FanSpeed", "EmergencyStop", "StatusQuery"}
ImmediateCommands == {"EmergencyStop", "StatusQuery"}
QueuedCommands == {"Move", "SetTemperature", "FanSpeed"}

VARIABLES
    gcode_buffer,                 \* [Option<Line>; 32]
    gcode_buffer_head,            \* u8
    gcode_buffer_tail,            \* u8
    immediate_gcode_buffer,       \* [Option<Line>; 32]
    immediate_gcode_buffer_head,  \* u8
    immediate_gcode_buffer_tail,  \* u8
    serial_buffer,                \* [u8; 256]
    serial_bytes,                 \* u8
    motion,                       \* the commands handed to the motion planner, in order
    panicked,                     \* "no", or the panic that stopped the program
    tick_parity,                  \* history: the number of ticks run so far, modulo 2
    try_read,                     \* history: what try_read_byte returned in the last
                                  \*   tick, "Ok" or "Err" ("none" before the first tick)
    received,                     \* history: the bytes try_read_byte returned
    decoded,                      \* history: per terminator, the slice handed to from_utf8,
                                  \*   the line that wrote each of its cells and the number
                                  \*   of Ok(line) results the decode enqueued
    produced,                     \* history: the Ok(line) results the loop body received
    serial_origin                 \* history: per cell of serial_buffer, the line that wrote it

vars == <<gcode_buffer, gcode_buffer_head, gcode_buffer_tail,
          immediate_gcode_buffer, immediate_gcode_buffer_head,
          immediate_gcode_buffer_tail, serial_buffer, serial_bytes, motion,
          panicked, tick_parity, try_read, received, decoded, produced,
          serial_origin>>

\* What a tick whose try_read_byte returned Err can change at most: all
\* but the record of the read itself.
printer_vars == <<gcode_buffer, gcode_buffer_head, gcode_buffer_tail,
                  immediate_gcode_buffer, immediate_gcode_buffer_head,
                  immediate_gcode_buffer_tail, serial_buffer, serial_bytes,
                  motion, panicked, received, decoded, produced, serial_origin>>

ring_vars == <<gcode_buffer, gcode_buffer_head, gcode_buffer_tail,
               immediate_gcode_buffer, immediate_gcode_buffer_head,
               immediate_gcode_buffer_tail>>

(* ------------------------------------------------------------------ *)
(* Printer::new                                                         *)
(* ------------------------------------------------------------------ *)

Init ==
    /\ gcode_buffer = [i \in 0..(BufferSize - 1) |-> None]
    /\ gcode_buffer_head = 0
    /\ gcode_buffer_tail = 0
    /\ immediate_gcode_buffer = [i \in 0..(BufferSize - 1) |-> None]
    /\ immediate_gcode_buffer_head = 0
    /\ immediate_gcode_buffer_tail = 0
    /\ serial_buffer = [i \in 0..(SerialBufferSize - 1) |-> NUL]
    /\ serial_bytes = 0
    /\ motion = <<>>
    /\ panicked = "no"
    /\ tick_parity = 0
    /\ try_read = "none"
    /\ received = <<>>
    /\ decoded = <<>>
    /\ produced = <<>>
    /\ serial_origin = [i \in 0..(SerialBufferSize - 1) |-> 0]

(* ------------------------------------------------------------------ *)
(* core::str::from_utf8 and str::chars                                  *)
(* ------------------------------------------------------------------ *)

IsCont(b) == b >= 128 /\ b <= 191

\* The length of the UTF-8 sequence a first byte announces, 0 for a byte
\* that cannot start one.
Utf8Width(b) ==
    IF b < 128 THEN 1
    ELSE IF b >= 194 /\ b <= 223 THEN 2
    ELSE IF b >= 224 /\ b <= 239 THEN 3
    ELSE IF b >= 240 /\ b <= 244 THEN 4
    ELSE 0

\* Whether a well-formed UTF-8 sequence starts at s[i]: the first byte
\* announces a width, the continuation bytes follow, and the second byte
\* excludes overlong forms, surrogates and values above U+10FFFF.
Utf8SeqAt(s, i) ==
    LET w == Utf8Width(s[i])
    IN  /\ w > 0
        /\ i + w - 1 <= Len(s)
        /\ \A j \in (i + 1)..(i + w - 1) : IsCont(s[j])
        /\ (s[i] = 224 => s[i + 1] >= 160)
        /\ (s[i] = 237 => s[i + 1] <= 159)
        /\ (s[i] = 240 => s[i + 1] >= 144)
        /\ (s[i] = 244 => s[i + 1] <= 143)

\* core::str::from_utf8(s).is_ok(): every byte lies in a well-formed
\* sequence, which starts at most three bytes before it.
Utf8Valid(s) ==
    \A j \in 1..Len(s) :
        \E i \in (IF j > 3 THEN j - 3 ELSE 1)..j :
            /\ Utf8SeqAt(s, i)
            /\ j <= i + Utf8Width(s[i]) - 1

\* The code point of the well-formed sequence that starts at s[i].
CodePoint(s, i) ==
    LET w == Utf8Width(s[i])
    IN  IF w = 1 THEN s[i]
        ELSE IF w = 2 THEN (s[i] - 192) * 64 + (s[i + 1] - 128)
        ELSE IF w = 3
            THEN (s[i] - 224) * 4096 + (s[i + 1] - 128) * 64 + (s[i + 2] - 128)
        ELSE (s[i] - 240) * 262144 + (s[i + 1] - 128) * 4096
             + (s[i + 2] - 128) * 64 + (s[i + 3] - 128)

\* chars.chars(): the code points of a valid UTF-8 byte sequence, one per
\* sequence start, in order.
Chars(s) ==
    LET starts == SelectSeq([i \in 1..Len(s) |-> i],
                            LAMBDA i : ~ IsCont(s[i]))
    IN  [k \in 1..Len(starts) |-> CodePoint(s, starts[k])]

(* ------------------------------------------------------------------ *)
(* The gcode collaborator: Tokenizer and Parser                         *)
(* ------------------------------------------------------------------ *)

\* The characters the tokenizer accepts; any other character is a
\* tokenizer error.
TokenChars == {ByteG, ByteT, ByteF, ByteE, ByteQ, ByteX}

\* Tokenizer::new(chars).filter_map(|t| t.ok()): the tokens of the
\* characters, the tokenizer's errors dropped.
Tokens(chars) == SelectSeq(chars, LAMBDA c : c \in TokenChars)

\* One parse result: Ok(line) or Err(err).
ParseToken(t) ==
    IF t = ByteG THEN [ok |-> TRUE, line |-> "Move"]
    ELSE IF t = ByteT THEN [ok |-> TRUE, line |-> "SetTemperature"]
    ELSE IF t = ByteF THEN [ok |-> TRUE, line |-> "FanSpeed"]
    ELSE IF t = ByteE THEN [ok |-> TRUE, line |-> "EmergencyStop"]
    ELSE IF t = ByteQ THEN [ok |-> TRUE, line |-> "StatusQuery"]
    ELSE [ok |-> FALSE, line |-> None]

\* Parser::new(tokens): the finite sequence of parse results
Parser(tokens) == [i \in 1..Len(tokens) |-> ParseToken(tokens[i])]

(* ------------------------------------------------------------------ *)
(* Printer::recive_serial                                               *)
(* ------------------------------------------------------------------ *)

\* &self.serial_buffer[0..self.serial_bytes]
Slice(buf, n) == [i \in 1..n |-> buf[i - 1]]

\* `x += 1` on a u8 in one build: a value below 255 is incremented; 255
\* panics in a build with overflow checks and wraps to 0 in one without.
U8Add(x, checks) ==
    IF x + 1 < U8Modulus THEN [panic |-> FALSE, value |-> x + 1]
    ELSE IF checks THEN [panic |-> TRUE, value |-> x]
    ELSE [panic |-> FALSE, value |-> (x + 1) % U8Modulus]

\* `x += 1` on a u8: the outcomes the builds can produce.
U8Increment(x) == {U8Add(x, checks) : checks \in BOOLEAN}

\* The body of `Ok(line) => { ... }` on the ring state
\* st = [buf, head, panicked, produced, checks]:
\*     self.gcode_buffer_head += 1;
\*     self.gcode_buffer[self.gcode_buffer_head] = Some(line);
\* The increment is a u8 increment; an index outside the array panics.
StoreLine(st, line) ==
    LET inc == U8Add(st.head, st.checks)
        seen == [st EXCEPT !.produced = Append(st.produced, line)]
    IN  IF inc.panic
            THEN [seen EXCEPT !.panicked = "overflow"]
        ELSE IF inc.value < BufferSize
            THEN [seen EXCEPT !.head = inc.value,
                              !.buf = [st.buf EXCEPT ![inc.value] = line]]
            ELSE [seen EXCEPT !.head = inc.value, !.panicked = "index"]

RECURSIVE ForOkLine(_, _)
\* The loop body over the Ok results, in order.  A panic leaves the
\* loop: the remaining results are never looked at.
ForOkLine(lines, st) ==
    IF lines = <<>> \/ st.panicked # "no" THEN st
    ELSE ForOkLine(Tail(lines), StoreLine(st, Head(lines)))

\* for line in parser { match line { Ok(line) => ..., Err(err) => {} } }
\* An Err result changes nothing, so the loop is the loop body over the
\* Ok results.
ForLineInParser(results, st) ==
    LET oks == SelectSeq(results, LAMBDA r : r.ok)
    IN  ForOkLine([i \in 1..Len(oks) |-> oks[i].line], st)

\* The terminator branch up to `self.serial_bytes = 0`: what the match
\* on from_utf8 does to the ring state.
DecodeLine(slice, st) ==
    IF Utf8Valid(slice)
        THEN ForLineInParser(Parser(Tokens(Chars(slice))), st)
        ELSE st

\* The number of the line being received: one more than the lines ended.
LineNo == Len(decoded) + 1

\* if byte != LINE_ENDING { if self.serial_bytes < 256 { ... } }
\* SerialGuard is 0, which no u8 value is below: the inner block is
\* written out as the code has it, and no run of the program enters it.
ReciveNonTerminator(byte) ==
    /\ UNCHANGED <<ring_vars, motion, decoded, produced>>
    /\ IF serial_bytes < SerialGuard
          THEN \E inc \in U8Increment(serial_bytes) :
                  IF inc.panic
                     THEN /\ panicked' = "overflow"
                          /\ UNCHANGED <<serial_bytes, serial_buffer, serial_origin>>
                     ELSE /\ serial_bytes' = inc.value
                          /\ serial_buffer' = [serial_buffer EXCEPT ![inc.value] = byte]
                          /\ serial_origin' = [serial_origin EXCEPT ![inc.value] = LineNo]
                          /\ UNCHANGED panicked
          ELSE UNCHANGED <<serial_bytes, serial_buffer, serial_origin, panicked>>

\* else { match core::str::from_utf8(...) { ... } self.serial_bytes = 0; }
\* The loop runs in the build the program was made with; a panic in the
\* loop leaves the branch before `self.serial_bytes = 0`.
ReciveTerminator ==
    \E checks \in BOOLEAN :
    \E slice \in {Slice(serial_buffer, serial_bytes)} :
    \E st \in {DecodeLine(slice, [buf |-> gcode_buffer,
                                  head |-> gcode_buffer_head,
                                  panicked |-> "no",
                                  produced |-> produced,
                                  checks |-> checks])} :
        /\ decoded' = Append(decoded, [slice |-> slice,
                                       origin |-> Slice(serial_origin, serial_bytes),
                                       lines |-> Len(st.produced) - Len(produced)])
        /\ gcode_buffer' = st.buf
        /\ gcode_buffer_head' = st.head
        /\ produced' = st.produced
        /\ panicked' = st.panicked
        /\ serial_bytes' = IF st.panicked = "no" THEN 0 ELSE serial_bytes
        /\ UNCHANGED <<gcode_buffer_tail, immediate_gcode_buffer,
                       immediate_gcode_buffer_head, immediate_gcode_buffer_tail,
                       serial_buffer, serial_origin, motion>>

\* recive_serial when try_read_byte returned Ok(byte)
ReciveSerial(byte) ==
    /\ try_read' = "Ok"
    /\ tick_parity' = 1 - tick_parity
    /\ received' = Append(received, byte)
    /\ IF byte # LINE_ENDING
          THEN ReciveNonTerminator(byte)
          ELSE ReciveTerminator

(* ------------------------------------------------------------------ *)
(* Printer::update, once per tick                                       *)
(* ------------------------------------------------------------------ *)

\* update() in a tick where the transport has a byte: recive_serial and
\* nothing else.
Update(byte) ==
    /\ panicked = "no"
    /\ ReciveSerial(byte)

\* A would-block tick that takes the missing byte for a NUL and stores
\* it (`try_read_byte().unwrap_or(0)`).
UpdateWouldBlockStore ==
    /\ panicked = "no"
    /\ try_read' = "Err"
    /\ tick_parity' = 1 - tick_parity
    /\ serial_bytes' = (serial_bytes + 1) % U8Modulus
    /\ serial_buffer' = [serial_buffer EXCEPT ![serial_bytes'] = NUL]
    /\ UNCHANGED <<ring_vars, motion, panicked, received, decoded,
                   produced, serial_origin>>

\* update() in a tick where try_read_byte returns Err: the `if let`
\* does not match and no field of the Printer is changed; only the
\* history (the read, the tick count) records the tick.
UpdateWouldBlock ==
    /\ panicked = "no"
    /\ try_read' = "Err"
    /\ tick_parity' = 1 - tick_parity
    /\ UNCHANGED printer_vars

(* ------------------------------------------------------------------ *)
(* Specifications                                                       *)
(* ------------------------------------------------------------------ *)

\* Any byte in any tick, up to MaxBytes bytes.
UpdateByte(byte) ==
    /\ Len(received) < MaxBytes
    /\ Update(byte)

Next ==
    \/ \E byte \in Bytes : UpdateByte(byte)
    \/ UpdateWouldBlock

Spec == Init /\ [][Next]_vars

\* The transport first delivers a run of RunByte (a long line), then up
\* to MaxPost bytes of PostBytes.
\* The bytes received after the run: PostBytes holds no RunByte.
PostLen == Len(SelectSeq(received, LAMBDA b : b # RunByte))

UpdateRun ==
    /\ PostLen = 0
    /\ Len(received) < MaxRun
    /\ Update(RunByte)

UpdatePost(byte) ==
    /\ PostLen < MaxPost
    /\ Update(byte)

NextLong ==
    \/ UpdateRun
    \/ \E byte \in PostBytes : UpdatePost(byte)
    \/ UpdateWouldBlock

SpecLong == Init /\ [][NextLong]_vars

\* The transport may deliver up to MaxLive bytes of LiveBytes, or fewer,
\* or none.  update() keeps being called while the program has not
\* panicked, and of a transport that delivers finitely many bytes that
\* means ticks that find no byte keep coming: would-block ticks are
\* weakly fair.  Every tick is a step (the tick count changes), so the
\* fairness asks for further ticks only, never for a byte from the
\* transport.
UpdateLive(byte) ==
    /\ Len(received) < MaxLive
    /\ Update(byte)

NextLive ==
    \/ \E byte \in LiveBytes : UpdateLive(byte)
    \/ UpdateWouldBlock

SpecLive == Init /\ [][NextLive]_vars /\ WF_vars(UpdateWouldBlock)

(* ------------------------------------------------------------------ *)
(* Vocabulary of the properties                                         *)
(* ------------------------------------------------------------------ *)

\* The complete lines of a byte stream, split on the terminator in one
\* pass: line k is what lies between terminator k-1 and terminator k.
SplitLines(s) ==
    LET ends == SelectSeq([i \in 1..Len(s) |-> i],
                          LAMBDA i : s[i] = LINE_ENDING)
    IN  [k \in 1..Len(ends) |->
            SubSeq(s, (IF k = 1 THEN 0 ELSE ends[k - 1]) + 1, ends[k] - 1)]

\* The complete lines received so far.
ReceivedLines == SplitLines(received)

\* The bytes received since the last terminator: the line being sent.
CurrentLine ==
    LET ends == {i \in 1..Len(received) : received[i] = LINE_ENDING}
        last == IF ends = {} THEN 0
                ELSE CHOOSE i \in ends : \A j \in ends : j <= i
    IN  SubSeq(received, last + 1, Len(received))

\* The tick read a byte, and it is not the terminator.
ReadNonTerminator ==
    /\ received' # received
    /\ received'[Len(received')] # LINE_ENDING

\* The commands the tick decoded, in the order it decoded them.
NewlyProduced == SubSeq(produced', Len(produced) + 1, Len(produced'))

(* ------------------------------------------------------------------ *)
(* Properties                                                           *)
(* ------------------------------------------------------------------ *)

\* C4 (streaming equivalence): the slices handed to the line decoder are
\* the complete lines of the received byte stream split on 0x0A.
C4_StreamingEquivalence ==
    (\A k \in 1..Len(ReceivedLines) :
            Len(ReceivedLines[k]) <= SerialBufferSize)
        => [k \in 1..Len(decoded) |-> decoded[k].slice] = ReceivedLines

\* C5 (line buffer bound): the line length is at most 256 and receiving
\* a byte never panics, however long the line.
C5_LineBufferBound ==
    /\ serial_bytes <= SerialBufferSize
    /\ panicked # "overflow"

\* More than 256 bytes of one line were received and the program runs on.
C5_Witness ==
    /\ Len(CurrentLine) > SerialBufferSize
    /\ panicked = "no"

\* C14 (no effect on would-block): a tick whose try_read_byte returned
\* Err leaves the line buffer's contents and length and both rings as
\* they were, and reads no byte.
C14_WouldBlockNoEffect ==
    [][ try_read' = "Err"
          => UNCHANGED <<serial_buffer, serial_bytes, ring_vars, received>>
      ]_vars

\* A would-block tick has just run in the middle of a line.
C14_Witness ==
    /\ try_read = "Err"
    /\ CurrentLine # <<>>

\* C15 (non-terminator byte): a tick that reads a byte other than 0x0A
\* while the line buffer holds fewer than 256 bytes stores the byte at
\* the index equal to the old length and adds one to the length; the
\* other cells, the rings and the commands decoded stay as they were.
C15_NonTerminatorByte ==
    [][ (ReadNonTerminator /\ serial_bytes < SerialBufferSize)
          => /\ serial_bytes' = serial_bytes + 1
             /\ serial_buffer' = [serial_buffer EXCEPT
                                     ![serial_bytes] = received'[Len(received')]]
             /\ UNCHANGED <<ring_vars, produced, motion>>
      ]_vars

=============================================================================
